---- MODULE Spec2Model ----
(***************************************************************************)
(* Model of aggregate/piclet_generator.py: the recursive search for the    *)
(* port_SiN component of a submission (find_port_sin_cell_and_position),   *)
(* the composition of one PIClet around a submission                       *)
(* (create_piclet_layout / create_simplified_piclet) and the batch driver  *)
(* (generate_piclets).                                                     *)
(***************************************************************************)
EXTENDS Integers, Sequences, FiniteSets, TLC

(***************************************************************************)
(* Bounds of the model.                                                    *)
(***************************************************************************)
\* Total number of Instances in one cell hierarchy.
MaxInsts == 3
\* Number of top-level calls of the walker in a walker-only run.
MaxCalls == 2
\* Number of submissions load_submission_designs returns.
MaxSubs == 2

\* Number of Instances of the deepest trees the walker is run on: enough
\* for two branches below the root, one of them three levels deep.
DeepInsts == MaxInsts + 2
\* A hierarchy with DeepInsts instances involves at most DeepInsts + 1 cells.
NCells == DeepInsts + 1
\* cell_index() values of the cells of one layout.
Cells == 0 .. (NCells - 1)
\* The cell the search starts from.
Root == 0

(***************************************************************************)
(* Cell names are sequences of tokens; the marker is one token, so that    *)
(* "marker in name" is a search through the name.                          *)
(***************************************************************************)
Marker == "port_SiN"
PlainName == <<"wg_", "strip">>
MarkerName == <<"ebeam_", "port_SiN", "_800">>
Names == {PlainName, MarkerName}

\* Mutant: the test is made on the wrong side ("name in marker").
HasMarkerExact(n) == n = <<Marker>>
\* "port_SiN" in inst.cell.name
HasMarker(n) == \E k \in 1 .. Len(n) : n[k] = Marker

(***************************************************************************)
(* Geometry: integer boxes and displacements (pya.Box, pya.Trans R0).      *)
(***************************************************************************)
Box(l, b, r, t) == [l |-> l, b |-> b, r |-> r, t |-> t]
DefaultBox == Box(-400, -400, 400, 400)
Boxes == {DefaultBox, Box(1000, -100, 3000, 500)}
Offsets == {<<0, 0>>, <<5000, -1000>>}

BoxWidth(bx) == bx.r - bx.l
BoxHeight(bx) == bx.t - bx.b
\* pya.Box.center(): the midpoint, in integer database units.
BoxCenter(bx) == <<bx.l + (BoxWidth(bx) \div 2), bx.b + (BoxHeight(bx) \div 2)>>
\* A box moved by a displacement.
BoxMoved(bx, d) == Box(bx.l + d[1], bx.b + d[2], bx.r + d[1], bx.t + d[2])

NoInsts == [c \in Cells |-> << >>]
Inst(c, d) == [cell |-> c, disp |-> d]

\* The cells that occur in a hierarchy: the root and every instantiated cell.
UsedCells(h) ==
    {Root} \cup UNION {{h[c][k].cell : k \in 1 .. Len(h[c])} : c \in Cells}
NumInsts(h) == LET RECURSIVE Sum(_)
                   Sum(S) == IF S = {} THEN 0
                             ELSE LET c == CHOOSE x \in S : TRUE
                                  IN Len(h[c]) + Sum(S \ {c})
               IN Sum(Cells)
SetMax(S) == CHOOSE x \in S : \A y \in S : y <= x

\* One more instance appended to the instance list of a cell of the tree;
\* the instantiated cell is a cell of the tree (also an ancestor: a cycle)
\* or the next cell_index not yet in use.
Extend(h) ==
    LET used == UsedCells(h)
        next == SetMax(used) + 1
        kids == used \cup (IF next \in Cells THEN {next} ELSE {})
    IN {[h EXCEPT ![p] = Append(h[p], Inst(c, d))] :
            p \in used, c \in kids, d \in Offsets}

RECURSIVE HierUpTo(_)
HierUpTo(k) ==
    IF k = 0 THEN {NoInsts}
    ELSE LET prev == HierUpTo(k - 1)
         IN prev \cup UNION {Extend(h) : h \in {g \in prev : NumInsts(g) = k - 1}}

\* The cell trees (instance hierarchies, cycles included) of the model.
Hierarchies == HierUpTo(MaxInsts)

\* One more instance, of a cell not yet in use, placed at the origin of a
\* cell of the tree: every cell is instantiated once.
Grow(h) ==
    LET used == UsedCells(h)
        next == SetMax(used) + 1
    IN IF next \in Cells
       THEN {[h EXCEPT ![p] = Append(h[p], Inst(next, <<0, 0>>))] : p \in used}
       ELSE {}

RECURSIVE TreesUpTo(_)
TreesUpTo(k) ==
    IF k = 0 THEN {NoInsts}
    ELSE LET prev == TreesUpTo(k - 1)
         IN prev \cup UNION {Grow(h) : h \in {g \in prev : NumInsts(g) = k - 1}}

\* The proper trees (no cell instantiated twice, no cycle) of up to
\* DeepInsts instances.
DeepTrees == TreesUpTo(DeepInsts)
\* The cell trees of the submissions the driver composes.
SubInsts == MaxInsts - 1

VARIABLES
    insts,      \* cell.each_inst(): cell -> sequence of [cell, disp]
    name,       \* cell.name
    bbox,       \* cell.bbox()
    wpc,        \* walker: "idle", "running", "done"
    stack,      \* walker: call stack of frames [cell, pc, i]
    visited,    \* walker: visited_cells, one set shared by the whole call
    ret,        \* walker: value returned by the last call that returned
    result,     \* walker: value returned by the top-level call
    ncalls,     \* number of top-level calls made
    hist,       \* history of the current top-level call (not program state)
    pc,         \* driver and composer: the statement reached
    nsubs,      \* len(submissions)
    idx,        \* position of the loop over the submissions
    steps,      \* composer: the steps completed for the current piclet
    placed,     \* composer: the instances inserted into the piclet cell
    routes,     \* composer: the connections drawn in the piclet cell
    pins,       \* pins of the cells of the original and of the copied tree
    libPins,    \* pins of the parts-library cells
    top,        \* what create_piclet_layout gave the driver
    missed,     \* parts-library lookups of the current piclet that missed
    warned,     \* composer: the missing-FaML warning was printed
    outcome,    \* driver: what became of each submission
    ran         \* driver: which calls were made for each submission

tvars == <<insts, name, bbox>>
wvars == <<wpc, stack, visited, ret, result, ncalls, hist>>
cvars == <<pc, nsubs, idx, steps, placed, routes, pins, libPins, top, missed,
           warned, outcome, ran>>
vars == <<tvars, wvars, cvars>>

\* (None, None)
Miss == [found |-> FALSE, cell |-> -1, y |-> 0]
Hit(c, y) == [found |-> TRUE, cell |-> c, y |-> y]

Frame(c) == [cell |-> c, pc |-> "enter", i |-> 0]
Top == stack[Len(stack)]
SetTop(f) == [stack EXCEPT ![Len(stack)] = f]
Pop == SubSeq(stack, 1, Len(stack) - 1)

\* What the history records of one top-level call: how often each cell's
\* instance list was scanned, how many invocations were made, how many
\* steps were taken, and, for a
\* match, where it was found (scanned cell, instance index, depth) and the
\* centre of the matched instance in the frame of the root.
NoHist == [scans |-> [c \in Cells |-> 0], entered |-> 0, steps |-> 0,
           abs |-> <<0, 0>>, parent |-> -1, idx |-> 0, depth |-> 0]

\* The recursion is as deep as the number of cells plus the one invocation
\* that is about to test the visited set.
MaxDepth == NCells + 1

(***************************************************************************)
(* find_port_sin_cell_and_position                                         *)
(***************************************************************************)
\* Mutant: the visited set is kept from one top-level call to the next.
KeptVisited(old) == old
\* visited_cells = set() when the caller passes none
FreshVisited(old) == {}

\* Mutant: no cycle protection.
NeverVisited(c, vs) == FALSE
\* cell.cell_index() in visited_cells
AlreadyVisited(c, vs) == c \in vs

\* Mutant: the scan starts at the second instance.
MatchAfterFirst(c) ==
    LET hits == {k \in 2 .. Len(insts[c]) : HasMarker(name[insts[c][k].cell])}
    IN IF hits = {} THEN 0 ELSE CHOOSE k \in hits : \A j \in hits : k <= j
\* Mutant: the last matching instance wins.
LastMatch(c) ==
    LET hits == {k \in 1 .. Len(insts[c]) : HasMarker(name[insts[c][k].cell])}
    IN IF hits = {} THEN 0 ELSE SetMax(hits)
\* The first loop: index of the first direct instance whose cell name has
\* the marker, 0 when there is none.
FirstMatch(c) ==
    LET hits == {k \in 1 .. Len(insts[c]) : HasMarker(name[insts[c][k].cell])}
    IN IF hits = {} THEN 0 ELSE CHOOSE k \in hits : \A j \in hits : k <= j

\* inst.bbox(): the cell's box through the instance's transformation
InstBBox(in) == BoxMoved(bbox[in.cell], in.disp)
\* Mutant: the centre of the cell's own box, the instance's placement dropped.
CellCenterY(in) == BoxCenter(bbox[in.cell])[2]
\* bbox.center().y
YPosition(in) == BoxCenter(InstBBox(in))[2]

\* Sum of the displacements of the instances through which the frames
\* below the top one were entered (history only).
RECURSIVE PathDisp(_, _)
PathDisp(st, k) ==
    IF k = 0 THEN <<0, 0>>
    ELSE LET f == st[k]
             d == insts[f.cell][f.i].disp
             r == PathDisp(st, k - 1)
         IN <<r[1] + d[1], r[2] + d[2]>>

\* return v: the frame is popped; the caller, if any, receives v.
Return(v) ==
    /\ stack' = Pop
    /\ ret' = v
    /\ IF Len(stack) = 1
       THEN wpc' = "done" /\ result' = v
       ELSE UNCHANGED <<wpc, result>>

\* The top-level call find_port_sin_cell_and_position(root, log_func).
StartWalk(root) ==
    /\ wpc' = "running"
    /\ stack' = <<Frame(root)>>
    /\ visited' = FreshVisited(visited)
    /\ ret' = Miss
    /\ result' = Miss
    /\ hist' = NoHist

\* Lines 248-254: the visited test on entry.
W_Enter ==
    /\ wpc = "running"
    /\ Top.pc = "enter"
    /\ hist' = [hist EXCEPT !.entered = @ + 1, !.steps = @ + 1]
    /\ IF AlreadyVisited(Top.cell, visited)
       THEN Return(Miss) /\ UNCHANGED visited
       ELSE /\ visited' = visited \cup {Top.cell}
            /\ stack' = SetTop([Top EXCEPT !.pc = "scan"])
            /\ UNCHANGED <<wpc, ret, result>>
    /\ UNCHANGED <<tvars, cvars, ncalls>>

\* Lines 260-268: the scan of the direct instances.
W_Scan ==
    /\ wpc = "running"
    /\ Top.pc = "scan"
    /\ LET c == Top.cell
           k == FirstMatch(c)
       IN IF k # 0
          THEN LET in == insts[c][k]
                   up == PathDisp(stack, Len(stack) - 1)
                   ctr == BoxCenter(InstBBox(in))
               IN /\ Return(Hit(in.cell, YPosition(in)))
                  /\ hist' = [hist EXCEPT !.scans[c] = @ + 1, !.steps = @ + 1,
                                          !.abs = <<up[1] + ctr[1], up[2] + ctr[2]>>,
                                          !.parent = c, !.idx = k,
                                          !.depth = Len(stack)]
          ELSE /\ stack' = SetTop([Top EXCEPT !.pc = "loop", !.i = 1])
               /\ hist' = [hist EXCEPT !.scans[c] = @ + 1, !.steps = @ + 1]
               /\ UNCHANGED <<wpc, ret, result>>
    /\ UNCHANGED <<tvars, cvars, visited, ncalls>>

\* Lines 271-273 and 279: the next recursive call, or the miss after the
\* last one.
W_Recurse ==
    /\ wpc = "running"
    /\ Top.pc = "loop"
    /\ IF Top.i <= Len(insts[Top.cell])
       THEN /\ Len(stack) < MaxDepth
            /\ stack' = Append(SetTop([Top EXCEPT !.pc = "wait"]),
                               Frame(insts[Top.cell][Top.i].cell))
            /\ UNCHANGED <<wpc, ret, result>>
       ELSE Return(Miss)
    /\ hist' = [hist EXCEPT !.steps = @ + 1]
    /\ UNCHANGED <<tvars, cvars, visited, ncalls>>

\* Lines 274-275: the recursive call has returned.
W_Resume ==
    /\ wpc = "running"
    /\ Top.pc = "wait"
    /\ IF ret.found
       THEN Return(ret)
       ELSE /\ stack' = SetTop([Top EXCEPT !.pc = "loop", !.i = @ + 1])
            /\ UNCHANGED <<wpc, ret, result>>
    /\ hist' = [hist EXCEPT !.steps = @ + 1]
    /\ UNCHANGED <<tvars, cvars, visited, ncalls>>

(***************************************************************************)
(* The submissions and the parts library.                                  *)
(***************************************************************************)
\* Names and boxes of the cells of a hierarchy: a cell outside the tree
\* keeps the plain name, and only the boxes the walker reads vary (the
\* port cells of one submission are drawn alike).
NamesOf(h) ==
    {n \in [Cells -> Names] : \A c \in Cells \ UsedCells(h) : n[c] = PlainName}
BoxesOf(n) ==
    {[c \in Cells |-> IF HasMarker(n[c]) THEN mb ELSE DefaultBox] : mb \in Boxes}

\* The box of a submission's top cell.
RootBoxes == {Box(0, -250, 2000, 250), Box(1000, -100, 3000, 500)}
\* The top cells load_submission_designs can return, with their trees.
Submissions ==
    UNION {UNION {{[insts |-> h, name |-> n, bbox |-> [b EXCEPT ![Root] = rb]] :
                        b \in BoxesOf(n), rb \in RootBoxes} :
                  n \in NamesOf(h)} :
           h \in HierUpTo(SubInsts)}

PlainTree == [c \in Cells |-> PlainName]
PlainBoxes == [c \in Cells |-> DefaultBox]
NoPins == [c \in Cells |-> {}]

Templates == {"laser", "heater", "pad", "ybranch", "faml"}
\* The templates without which no piclet is made.
Required == {"laser", "ybranch"}
\* The pins the parts-library cells come with.
TemplatePins ==
    [t \in Templates |->
        CASE t = "laser" -> {"opt1"}
          [] t = "heater" -> {"opt1", "opt2", "elec1", "elec2"}
          [] t = "pad" -> {"m_pin_left", "m_pin_right"}
          [] t = "ybranch" -> {"opt1", "opt2", "opt3"}
          [] t = "faml" -> {"opt1"}]

SubIds == 1 .. MaxSubs

\* make_pin(cell, name, center, w, layer, direction)
Pin(n, ctr, w, dir) == [name |-> n, center |-> ctr, w |-> w, dir |-> dir]
\* Lines 326-329: the pin of the primary path, on the port cell.
PrimaryPin(pb) == Pin("opt_laser", <<pb.l - pb.l, 0>>, 800, 180)
\* Line 372: the pin of the fallback path, on the copy of the submission.
FallbackPin(sb) == Pin("opt_laser", <<BoxWidth(sb) \div 2, 0>>, 800, 0)

\* Mutant: the search runs on the submission's own cell.
WalkedOriginal == "orig"
\* Line 320: the search runs on submission_cell_new, the copy.
WalkedTree == "copy"

\* Mutant: the Y-branch lookup is not tested.
NeverMissing(avail) == FALSE
\* Lines 71, 335, 377: "if not cell: raise".
RaisesOnMiss(avail) == ~avail

\* Mutant: the bond pads are made before the laser and the heater.
AfterPadsFirst(p) ==
    CASE p = "init" -> "pads"
      [] p = "pads" -> "laser"
      [] p = "laser" -> "heater"
      [] p = "heater" -> "resolve"
      [] p = "pin" -> "splitter"
      [] p = "splitter" -> "reference"
      [] p = "reference" -> "done"
\* The order of the statements of create_simplified_piclet.
After(p) ==
    CASE p = "init" -> "laser"
      [] p = "laser" -> "heater"
      [] p = "heater" -> "pads"
      [] p = "pads" -> "resolve"
      [] p = "pin" -> "splitter"
      [] p = "splitter" -> "reference"
      [] p = "reference" -> "done"

\* submissions[0:1]
Slice(n) == IF n < 1 THEN n ELSE 1

(***************************************************************************)
(* create_piclet_layout and create_simplified_piclet                       *)
(***************************************************************************)
\* An exception leaves the composition for the driver's handler.
Raise == /\ pc' = "except"
         /\ UNCHANGED <<steps, placed, routes, warned>>

\* Lines 463-473 and 295-302: top cell, floorplan, keepouts, piclet cell.
C_Init ==
    /\ pc = "init"
    /\ steps' = Append(steps, "Init")
    /\ pc' = After("init")
    /\ UNCHANGED <<tvars, wvars, nsubs, idx, placed, routes, pins, libPins, top,
                   missed, warned, outcome, ran>>

\* Lines 59-78: the laser is looked up and placed.
C_Laser ==
    /\ pc = "laser"
    /\ \E avail \in BOOLEAN :
          IF RaisesOnMiss(avail)
          THEN Raise /\ missed' = missed \cup {"laser"}
          ELSE /\ placed' = Append(placed, "laser")
               /\ steps' = Append(steps, "LaserPlaced")
               /\ missed' = IF avail THEN missed ELSE missed \cup {"laser"}
               /\ pc' = After("laser")
               /\ UNCHANGED <<routes, warned>>
    /\ UNCHANGED <<tvars, wvars, nsubs, idx, pins, libPins, top, outcome, ran>>

\* Lines 80-94: the heater is made, placed and connected to the laser.
C_Heater ==
    /\ pc = "heater"
    /\ \E avail \in BOOLEAN :
          IF ~avail
          THEN Raise /\ missed' = missed \cup {"heater"}
          ELSE /\ placed' = Append(placed, "heater")
               /\ routes' = Append(routes, <<"laser", "opt1", "heater", "opt1">>)
               /\ steps' = Append(steps, "HeaterPlacedConnected")
               /\ pc' = After("heater")
               /\ UNCHANGED <<missed, warned>>
    /\ UNCHANGED <<tvars, wvars, nsubs, idx, pins, libPins, top, outcome, ran>>

\* Lines 112-171: the four bond pads and their three metal routes.
C_Pads ==
    /\ pc = "pads"
    /\ \E avail \in BOOLEAN :
          IF ~avail
          THEN Raise /\ missed' = missed \cup {"pad"}
          ELSE /\ placed' = placed \o <<"padL1", "padL2", "pad1", "pad2">>
               /\ routes' = routes \o <<<<"padL1", "m_pin_left", "padL2", "m_pin_right">>,
                                        <<"pad1", "m_pin_right", "heater", "elec1">>,
                                        <<"pad2", "m_pin_right", "heater", "elec2">>>>
               /\ steps' = Append(steps, "PadsPlacedRouted")
               /\ pc' = After("pads")
               /\ UNCHANGED <<missed, warned>>
    /\ UNCHANGED <<tvars, wvars, nsubs, idx, pins, libPins, top, outcome, ran>>

\* Lines 312-320: the submission is copied and the search is started.
C_Resolve ==
    /\ pc = "resolve"
    /\ pins' = [pins EXCEPT !.copy = pins.orig]
    /\ StartWalk(Root)
    /\ pc' = "walk"
    /\ UNCHANGED <<tvars, ncalls, nsubs, idx, steps, placed, routes, libPins, top,
                   missed, warned, outcome, ran>>

\* Lines 322-330 and 368-372: the inlet pin, on the port cell found or, on a
\* miss, on the copy of the submission.
C_Pin ==
    /\ pc = "walk"
    /\ wpc = "done"
    /\ pins' = IF result.found
               THEN [pins EXCEPT ![WalkedTree][result.cell] =
                                       @ \cup {PrimaryPin(bbox[result.cell])}]
               ELSE [pins EXCEPT !.copy[Root] = @ \cup {FallbackPin(bbox[Root])}]
    /\ steps' = Append(steps, "SubmissionResolved")
    /\ pc' = After("pin")
    /\ UNCHANGED <<tvars, wvars, nsubs, idx, placed, routes, libPins, top, missed,
                   warned, outcome, ran>>

\* Lines 332-350 and 374-393: the Y-branch on the heater's output, the
\* submission beside it, and the waveguide between them.
C_Splitter ==
    /\ pc = "splitter"
    /\ \E avail \in BOOLEAN :
          IF RaisesOnMiss(avail)
          THEN Raise /\ missed' = missed \cup {"ybranch"}
          ELSE /\ placed' = placed \o <<"ybranch", "submission">>
               /\ routes' = Append(routes, <<"ybranch", "opt2", "submission", "opt_laser">>)
               /\ steps' = Append(steps, "SplitterPlacedConnected")
               /\ missed' = IF avail THEN missed ELSE missed \cup {"ybranch"}
               /\ pc' = After("splitter")
               /\ UNCHANGED warned
    /\ UNCHANGED <<tvars, wvars, nsubs, idx, pins, libPins, top, outcome, ran>>

\* Lines 352-366 and 395-409: the FaML reference path, or the warning.
C_Reference ==
    /\ pc = "reference"
    /\ \E avail \in BOOLEAN :
          IF avail
          THEN /\ placed' = Append(placed, "faml")
               /\ routes' = Append(routes, <<"ybranch", "opt3", "faml", "opt1">>)
               /\ UNCHANGED <<missed, warned>>
          ELSE /\ warned' = TRUE
               /\ missed' = missed \cup {"faml"}
               /\ UNCHANGED <<placed, routes>>
    /\ steps' = Append(steps, "ReferencePath")
    /\ pc' = After("reference")
    /\ UNCHANGED <<tvars, wvars, nsubs, idx, pins, libPins, top, outcome, ran>>

\* Lines 411 and 478-479: the piclet is returned to the driver.
C_Done ==
    /\ pc = "done"
    /\ steps' = Append(steps, "Done")
    /\ top' = "returned"
    /\ pc' = "verify"
    /\ UNCHANGED <<tvars, wvars, nsubs, idx, placed, routes, pins, libPins, missed,
                   warned, outcome, ran>>

(***************************************************************************)
(* generate_piclets                                                        *)
(***************************************************************************)
\* Line 497: load_submission_designs.
D_Load ==
    /\ pc = "load"
    /\ \E n \in 0 .. MaxSubs : nsubs' = n
    /\ pc' = "loop"
    /\ UNCHANGED <<tvars, wvars, idx, steps, placed, routes, pins, libPins, top,
                   missed, warned, outcome, ran>>

\* Lines 501-514: the next submission of the loop and its new layout, or
\* the end of the loop (line 536).
D_Next ==
    /\ pc = "loop"
    /\ IF idx < Slice(nsubs)
       THEN /\ idx' = idx + 1
            /\ \E sub \in Submissions :
                  /\ insts' = sub.insts
                  /\ name' = sub.name
                  /\ bbox' = sub.bbox
            /\ pins' = [orig |-> NoPins, copy |-> NoPins]
            /\ steps' = << >>
            /\ placed' = << >>
            /\ routes' = << >>
            /\ top' = "none"
            /\ missed' = {}
            /\ warned' = FALSE
            /\ ran' = [ran EXCEPT ![idx + 1] = {"compose"}]
            /\ pc' = "init"
       ELSE /\ pc' = "end"
            /\ UNCHANGED <<tvars, idx, pins, steps, placed, routes, top, missed,
                           warned, ran>>
    /\ UNCHANGED <<wvars, nsubs, libPins, outcome>>

\* Lines 516-520: layout_check.
D_Verify ==
    /\ pc = "verify"
    /\ ran' = [ran EXCEPT ![idx] = @ \cup {"verify"}]
    /\ \E r \in {"raise", "clean", "errors"} :
          pc' = IF r = "raise" THEN "except" ELSE "export"
    /\ UNCHANGED <<tvars, wvars, nsubs, idx, steps, placed, routes, pins, libPins,
                   top, missed, warned, outcome>>

\* Lines 522-530: export_layout.
D_Export ==
    /\ pc = "export"
    /\ ran' = [ran EXCEPT ![idx] = @ \cup {"export"}]
    /\ \E ok \in BOOLEAN :
          IF ok
          THEN outcome' = [outcome EXCEPT ![idx] = "exported"] /\ pc' = "loop"
          ELSE UNCHANGED outcome /\ pc' = "except"
    /\ UNCHANGED <<tvars, wvars, nsubs, idx, steps, placed, routes, pins, libPins,
                   top, missed, warned>>

\* Lines 532-534: the failure is printed and the loop goes on.
D_Except ==
    /\ pc = "except"
    /\ outcome' = [outcome EXCEPT ![idx] = "failed"]
    /\ pc' = "loop"
    /\ UNCHANGED <<tvars, wvars, nsubs, idx, steps, placed, routes, pins, libPins,
                   top, missed, warned, ran>>

(***************************************************************************)
(* Specifications.                                                         *)
(***************************************************************************)
WalkerIdle ==
    /\ wpc = "idle"
    /\ stack = << >>
    /\ visited = {}
    /\ ret = Miss
    /\ result = Miss
    /\ ncalls = 0
    /\ hist = NoHist

ComposerIdle(p) ==
    /\ pc = p
    /\ nsubs = 0
    /\ idx = 0
    /\ steps = << >>
    /\ placed = << >>
    /\ routes = << >>
    /\ pins = [orig |-> NoPins, copy |-> NoPins]
    /\ libPins = TemplatePins
    /\ top = "none"
    /\ missed = {}
    /\ warned = FALSE
    /\ outcome = [k \in SubIds |-> "none"]
    /\ ran = [k \in SubIds |-> {}]

\* A top-level call of the walker on the root of a hierarchy, on its own.
CallWalker ==
    /\ pc = "unit"
    /\ wpc \in {"idle", "done"}
    /\ ncalls < MaxCalls
    /\ ncalls' = ncalls + 1
    /\ StartWalk(Root)
    /\ UNCHANGED <<tvars, cvars>>

Walker == W_Enter \/ W_Scan \/ W_Recurse \/ W_Resume

\* The walker alone, on every hierarchy of the bounds.
InitWalk ==
    /\ insts \in Hierarchies
    /\ name \in NamesOf(insts)
    /\ bbox \in BoxesOf(name)
    /\ WalkerIdle
    /\ ComposerIdle("unit")

NextWalk == CallWalker \/ Walker

SpecWalk == InitWalk /\ [][NextWalk]_vars

\* The walker alone, on the deep proper trees: the top cell has a plain
\* name and every cell the default box.
InitDeep ==
    /\ insts \in DeepTrees
    /\ name \in {n \in NamesOf(insts) : n[Root] = PlainName}
    /\ bbox = PlainBoxes
    /\ WalkerIdle
    /\ ComposerIdle("unit")

SpecDeep == InitDeep /\ [][NextWalk]_vars

\* The driver, the composer and the walker it calls.
Init ==
    /\ insts = NoInsts
    /\ name = PlainTree
    /\ bbox = PlainBoxes
    /\ WalkerIdle
    /\ ComposerIdle("load")

Composer == C_Init \/ C_Laser \/ C_Heater \/ C_Pads \/ C_Resolve \/ C_Pin
            \/ C_Splitter \/ C_Reference \/ C_Done
Driver == D_Load \/ D_Next \/ D_Verify \/ D_Export \/ D_Except

Next == Driver \/ Composer \/ Walker

Spec == Init /\ [][Next]_vars

(***************************************************************************)
(* Vocabulary of the properties.                                           *)
(***************************************************************************)
\* The name contains the marker.
NameContainsMarker(n) == Marker \in {n[k] : k \in DOMAIN n}
\* The cells the direct instances of a cell refer to.
Kids(c) == {insts[c][k].cell : k \in 1 .. Len(insts[c])}
\* The cells reachable from the root through instance edges.
Reachable ==
    LET RECURSIVE Close(_)
        Close(S) == LET T == S \cup UNION {Kids(c) : c \in S}
                    IN IF T = S THEN S ELSE Close(T)
    IN Close({Root})
\* The direct instances of a cell whose cell name contains the marker.
MatchingInsts(c) ==
    {k \in 1 .. Len(insts[c]) : NameContainsMarker(name[insts[c][k].cell])}
\* Some cell of the tree has a matching direct instance.
MatchReachable == \E c \in Reachable : MatchingInsts(c) # {}
\* Cell A instantiates cell B, which instantiates cell A.
Cyclic == \E a, b \in Reachable : a # b /\ b \in Kids(a) /\ a \in Kids(b)
\* No cell is instantiated, directly or indirectly, inside itself.
Acyclic ==
    LET RECURSIVE Below(_)
        Below(S) == LET T == S \cup UNION {Kids(c) : c \in S}
                    IN IF T = S THEN S ELSE Below(T)
    IN \A c \in Cells : c \notin Below(Kids(c))
\* No cell name contains the marker.
NoMarkerName == \A c \in Cells : ~NameContainsMarker(name[c])
\* The centre, in the frame of cell c, of the box of c's k-th instance.
LocalCenter(c, k) ==
    LET in == insts[c][k]
        bx == bbox[in.cell]
    IN <<bx.l + in.disp[1] + (bx.r - bx.l) \div 2,
         bx.b + in.disp[2] + (bx.t - bx.b) \div 2>>
Min(S) == CHOOSE x \in S : \A y \in S : x <= y

\* The steps of one call: three for each cell scanned (the test on entry,
\* the scan, the return) and, for each instance, the call, the test on
\* entry of the callee and the resumption.
StepBound == 3 * Cardinality(Reachable) + 3 * NumInsts(insts)

\* The recursion never reaches the depth at which the model stops it.
DepthWithinModel ==
    (wpc = "running" /\ Top.pc = "loop" /\ Top.i <= Len(insts[Top.cell]))
        => Len(stack) < MaxDepth

(***************************************************************************)
(* The properties.                                                         *)
(***************************************************************************)
\* C1: on a hierarchy, cyclic or not, in which no cell name contains the
\* marker, a call of the walker with a fresh visited set terminates and
\* returns the miss (None, None): while it runs it can always take a step,
\* it takes no more than StepBound steps, and the value it ends with is
\* the miss.
C1_TerminatesWithMiss ==
    NoMarkerName
        => /\ wpc = "running" => (ENABLED Walker /\ hist.steps < StepBound)
           /\ wpc = "done" => (result = Miss /\ hist.steps <= StepBound)
\* A call on a cyclic hierarchy without marker has returned the miss.
C1_Witness ==
    wpc = "done" /\ NoMarkerName /\ Cyclic /\ result = Miss

\* C2: when the root has a matching direct instance, the walker returns the
\* cell and the position of the first of them in iteration order, whatever
\* matches lie deeper, and makes no recursive call: one invocation, one
\* cell visited.
C2_DirectChildFirst ==
    (wpc = "done" /\ MatchingInsts(Root) # {})
        => LET k == Min(MatchingInsts(Root))
           IN /\ result = Hit(insts[Root][k].cell, LocalCenter(Root, k)[2])
              /\ hist.entered = 1
              /\ visited = {Root}
\* The root has two matching direct instances of different cells, a match
\* lies deeper as well, and the call has returned.
C2_Witness ==
    /\ wpc = "done"
    /\ Cardinality({insts[Root][k].cell : k \in MatchingInsts(Root)}) > 1
    /\ \E c \in Reachable \ {Root} : MatchingInsts(c) # {}
    /\ result.found

\* C3 as claimed: the position returned for a match is the centre of the
\* matched instance's box in the frame of the root, the transformations of
\* all the ancestor instances applied.  (Of that point the walker returns
\* only y, so y is what is compared; the hierarchies are the acyclic ones.)
C3_AbsolutePosition ==
    (wpc = "done" /\ result.found /\ Acyclic) => result.y = hist.abs[2]
\* What the walker returns for C3's position: the y coordinate alone, of
\* the centre of the matched instance's box in the frame of the cell that
\* directly holds the instance; it is the absolute y for a direct instance
\* of the root only.
C3_LocalCenterY ==
    (wpc = "done" /\ result.found)
        => /\ \E c \in visited :
                /\ MatchingInsts(c) # {}
                /\ LET k == Min(MatchingInsts(c))
                   IN /\ result.cell = insts[c][k].cell
                      /\ result.y = LocalCenter(c, k)[2]
                      /\ hist.parent = c /\ hist.idx = k
           /\ hist.depth = 1 => result.y = hist.abs[2]
\* A match two levels below the root, under an instance placed at
\* (5000, -1000), whose returned y is 1000 above the absolute one.
C3_NestedMatch ==
    /\ wpc = "done" /\ result.found
    /\ hist.depth = 2
    /\ \E k \in 1 .. Len(insts[Root]) :
          /\ insts[Root][k] = Inst(hist.parent, <<5000, -1000>>)
          /\ hist.abs[2] = result.y - 1000

\* C4: a call with a fresh visited set returns the miss exactly when no
\* cell reachable from the root has a direct instance whose cell name
\* contains the marker, and the name of a cell it returns contains the
\* marker: the shared visited set hides no reachable match.
C4_MissIffNoMatch ==
    wpc = "done"
        => /\ (result = Miss) <=> ~MatchReachable
           /\ result.found <=> MatchReachable
           /\ result.found => NameContainsMarker(name[result.cell])
\* A match was returned although invocations were cut short by the
\* visited set (a cell instantiated more than once, or a cycle).
C4_Witness ==
    /\ wpc = "done" /\ result.found
    /\ hist.entered > Cardinality(visited)
    /\ hist.depth > 1

\* C10: within one top-level call the direct instances of a cell are scanned
\* at most once; the visited set only grows during the call; and a further
\* top-level call starts from the empty set.
C10_ScannedOnce ==
    /\ [](\A c \in Cells : hist.scans[c] <= 1)
    /\ [][IF ncalls' # ncalls THEN visited' = {} ELSE visited \subseteq visited']_vars
\* A second top-level call has returned after cutting short two invocations
\* on cells it had already visited, each visited cell scanned once.
C10_Witness ==
    /\ wpc = "done" /\ ncalls = 2
    /\ hist.entered >= Cardinality(visited) + 2
    /\ \A c \in visited : hist.scans[c] = 1

\* The least number of instance edges from the root to a reachable cell.
CellDepth(c) ==
    LET RECURSIVE Dist(_, _)
        Dist(S, d) == IF c \in S THEN d
                      ELSE Dist(S \cup UNION {Kids(x) : x \in S}, d + 1)
    IN Dist({Root}, 0)
\* The depths, counted from the root, at which matching instances lie.
MatchDepths == {CellDepth(c) + 1 : c \in {x \in Reachable : MatchingInsts(x) # {}}}

\* C11 as claimed: the match the walker returns is closest to the root: no
\* matching instance lies at a strictly smaller depth than the returned one.
C11_ClosestToRoot ==
    (wpc = "done" /\ result.found) => \A d \in MatchDepths : hist.depth <= d
\* C11 as amended: direct instances take priority along the depth-first
\* search only: when the walker returns a match, no cell it scanned before
\* the one holding the returned instance has a matching direct instance,
\* so a matching direct instance of the root always wins; a match at a
\* smaller depth may lie in a branch the search has not entered yet.
C11_DirectFirstWhereSearched ==
    (wpc = "done" /\ result.found)
        => /\ hist.parent \in visited
           /\ \A c \in visited \ {hist.parent} : MatchingInsts(c) = {}
           /\ MatchingInsts(Root) # {} => hist.depth = 1
\* The match returned lies three levels deep under the first instance of
\* the root while another lies two levels deep under the second.
C11_Witness ==
    /\ wpc = "done" /\ result.found /\ hist.depth = 3
    /\ Len(insts[Root]) = 2
    /\ hist.parent \in Kids(insts[Root][1].cell)
    /\ MatchingInsts(insts[Root][2].cell) # {}

\* The steps of one composition, in the order of the template graph.
Order == <<"Init", "LaserPlaced", "HeaterPlacedConnected", "PadsPlacedRouted",
           "SubmissionResolved", "SplitterPlacedConnected", "ReferencePath",
           "Done">>
\* The step a composer statement completes.
StepOf(p) ==
    CASE p = "init" -> 1
      [] p = "laser" -> 2
      [] p = "heater" -> 3
      [] p = "pads" -> 4
      [] p \in {"resolve", "walk"} -> 5
      [] p = "splitter" -> 6
      [] p = "reference" -> 7
      [] p = "done" -> 8
Composing == {"init", "laser", "heater", "pads", "resolve", "walk", "splitter",
              "reference", "done"}
\* The instances of a finished piclet, in the order of their insertion.
Assembled ==
    <<"laser", "heater", "padL1", "padL2", "pad1", "pad2", "ybranch", "submission">>
        \o (IF warned THEN << >> ELSE <<"faml">>)

\* C5: the steps of a composition are completed in the fixed order Init,
\* laser, heater, bond pads, submission inlet, splitter, reference path,
\* Done: the statement reached is always the one that follows the last step
\* completed, none is skipped or repeated, and a piclet handed to the
\* driver has been through all of them, its instances inserted in that
\* order.
C5_FixedOrder ==
    /\ steps = SubSeq(Order, 1, Len(steps))
    /\ pc \in Composing => Len(steps) = StepOf(pc) - 1
    /\ top = "returned" => (steps = Order /\ placed = Assembled)
\* A composition has reached Done and its piclet is with the driver.
C5_Witness ==
    pc = "verify" /\ top = "returned" /\ Len(steps) = 8 /\ ~warned

\* C6: when the laser or the Y-branch is unavailable the composition is
\* left by an exception: the driver gets no top cell and calls neither the
\* verification nor the export for that submission; verification and
\* export are only ever called on a piclet whose composition reached Done.
C6_NoPartialExport ==
    /\ (missed \cap Required # {})
          => /\ top = "none"
             /\ pc \in {"except", "loop", "end"}
             /\ ran[idx] = {"compose"}
             /\ outcome[idx] # "exported"
    /\ \A k \in SubIds :
          /\ (ran[k] \cap {"verify", "export"} # {})
                => (k = idx /\ top = "returned" /\ steps = Order)
          /\ outcome[k] = "exported" => "export" \in ran[k]
\* The Y-branch was unavailable: the driver has finished, the submission
\* is recorded as failed and was neither verified nor exported.
C6_Witness ==
    /\ pc = "end" /\ "ybranch" \in missed
    /\ outcome[1] = "failed" /\ ran[1] = {"compose"} /\ top = "none"

\* C7 as claimed: after a miss of the walker the composition reaches Done
\* with the pin opt_laser on the copy of the submission at the centre of the
\* submission's box.  (The flag the claim speaks of has no counterpart: the
\* composer returns the piclet instance and nothing else on both paths.)
C7_FallbackAtCentre ==
    (top = "returned" /\ ~result.found)
        => \E q \in pins.copy[Root] :
              q.name = "opt_laser" /\ q.center = BoxCenter(bbox[Root])

\* C8 as claimed: when the driver has finished, every submission that was
\* loaded has been attempted and has ended exported or failed.
C8_EverySubmissionSettled ==
    pc = "end" => \A k \in 1 .. nsubs : outcome[k] \in {"exported", "failed"}

\* C9: composition adds the pin opt_laser to the copied tree only: to the
\* port cell found in it, or on a miss to the copy's top cell; the cells of
\* the original submission and of the parts library keep their pins.
C9_OnlyCopyMutated ==
    /\ pins.orig = NoPins
    /\ libPins = TemplatePins
    /\ LET done == Len(steps) >= 5
       IN /\ ~done => pins.copy = NoPins
          /\ (done /\ result.found)
                => pins.copy = [NoPins EXCEPT ![result.cell] =
                                    {PrimaryPin(bbox[result.cell])}]
          /\ (done /\ ~result.found)
                => pins.copy = [NoPins EXCEPT ![Root] = {FallbackPin(bbox[Root])}]
\* A piclet was composed on the primary path: the pin is on a port cell
\* below the top of the copied tree.
C9_Witness ==
    /\ top = "returned" /\ result.found /\ result.cell # Root
    /\ \E q \in pins.copy[result.cell] : q.name = "opt_laser"

\* C12 as claimed: on the primary path the pin opt_laser is attached to the
\* port cell found, at the left edge and the vertical centre of that
\* cell's box, wherever the box lies.
C12_PinAtLeftEdgeCentre ==
    (Len(steps) >= 5 /\ result.found)
        => LET pb == bbox[result.cell]
           IN \E q \in pins.copy[result.cell] :
                 q.name = "opt_laser" /\ q.center = <<pb.l, BoxCenter(pb)[2]>>
====
